---- MODULE Spec2Model ----
(***************************************************************************)
(* Model of errorprop.py: Quantities (value, err_sys, err_stat) and the    *)
(* propagation of their errors through arithmetic.                         *)
(*                                                                         *)
(* Numbers.  The program computes with Python and numpy floats.  The model *)
(* computes exactly, over the rationals extended by the square roots of    *)
(* rationals (np.sqrt of a sum of squares), and by the special results the *)
(* program can produce: nan, +-inf (numpy), a raised exception (Python's   *)
(* ZeroDivisionError, IndexError, ...) and numpy arrays.  A finite number  *)
(* the model does not track exactly (a logarithm, a sum of two different   *)
(* roots) is the kind "fin"; no stored Quantity ever holds one (the        *)
(* actions that would produce it are outside the modelled inputs).         *)
(* Floating-point rounding is not modelled.                                *)
(*                                                                         *)
(* A number is a record [k, n, d]:                                         *)
(*   k = "rat"  : n/d, d > 0, in lowest terms                              *)
(*   k = "root" : sign(n) * sqrt(|n|/d), |n|/d in lowest terms, not a      *)
(*                square of a rational                                     *)
(*   k = "fin"  : a finite, non-zero number not tracked exactly; n is its  *)
(*                sign (1, -1) or 0 when the sign is not tracked either    *)
(*   k = "inf"  : n = 1 for +inf, n = -1 for -inf                          *)
(*   k = "nan"  : numpy's nan                                              *)
(*   k = "err"  : evaluating the expression raised an exception            *)
(*   k = "arr"  : a numpy array, n the sequence of its elements            *)
(***************************************************************************)
EXTENDS Integers, Sequences, FiniteSets, TLC

VARIABLES heap, last

vars == <<heap, last>>

---------------------------------------------------------------------------
(* Integer helpers *)

IAbs(x) == IF x < 0 THEN -x ELSE x

ISign(x) == IF x < 0 THEN -1 ELSE IF x = 0 THEN 0 ELSE 1

RECURSIVE Gcd(_, _)
Gcd(a, b) == IF b = 0 THEN a ELSE Gcd(b, a % b)

\* Newton's iteration for the integer square root, from a guess r >= sqrt(x)
RECURSIVE ISqrtFrom(_, _)
ISqrtFrom(x, r) ==
    LET next == (r + x \div r) \div 2
    IN IF next >= r THEN r ELSE ISqrtFrom(x, next)

\* The greatest r with r*r <= x
ISqrt(x) == IF x = 0 THEN 0 ELSE ISqrtFrom(x, x)

IsSquare(x) == ISqrt(x) * ISqrt(x) = x

\* The model tracks a rational exactly while its numerator and denominator
\* are at most Cap in magnitude, and a root while those of its square are at
\* most Cap * Cap
Cap == 30000

---------------------------------------------------------------------------
(* Numbers *)

NaN == [k |-> "nan", n |-> 0, d |-> 1]

Inf(s) == [k |-> "inf", n |-> s, d |-> 1]

Fin(s) == [k |-> "fin", n |-> s, d |-> 1]

\* The rational n/d (d # 0), normalised
R(n, d) ==
    LET g == Gcd(IAbs(n), IAbs(d))
        s == IF d < 0 THEN -1 ELSE 1
        nn == (s * n) \div g
        dd == IAbs(d) \div g
    IN IF IAbs(nn) > Cap \/ dd > Cap THEN Fin(ISign(nn))
       ELSE [k |-> "rat", n |-> nn, d |-> dd]

Zero == R(0, 1)

One == R(1, 1)

Raised == [k |-> "err", n |-> 0, d |-> 1]

Arr(xs) == [k |-> "arr", n |-> xs, d |-> 1]

\* sgn * sqrt(n/d) for n >= 0, d > 0, sgn in {-1, 1}
MkRoot(sgn, n, d) ==
    LET g == Gcd(n, d)
        nn == n \div g
        dd == d \div g
    IN IF nn = 0 THEN Zero
       ELSE IF IsSquare(nn) /\ IsSquare(dd) THEN R(sgn * ISqrt(nn), ISqrt(dd))
       ELSE IF nn > Cap * Cap \/ dd > Cap * Cap THEN Fin(sgn)
       ELSE [k |-> "root", n |-> sgn * nn, d |-> dd]

IsZero(x) == x.k = "rat" /\ x.n = 0

\* The sign of a scalar that has one: rat, root, fin, inf
SignOf(x) == ISign(x.n)

\* The square of an exact number, as numerator and denominator
SqNum(x) == IF x.k = "rat" THEN x.n * x.n ELSE IAbs(x.n)

SqDen(x) == IF x.k = "rat" THEN x.d * x.d ELSE x.d

\* x * y on scalars
MulS(x, y) ==
    IF x.k = "err" \/ y.k = "err" THEN Raised
    ELSE IF x.k = "nan" \/ y.k = "nan" THEN NaN
    ELSE IF x.k = "inf" \/ y.k = "inf"
         THEN IF IsZero(x) \/ IsZero(y) THEN NaN
              ELSE IF SignOf(x) * SignOf(y) = 0 THEN NaN
              ELSE Inf(SignOf(x) * SignOf(y))
    ELSE IF IsZero(x) \/ IsZero(y) THEN Zero
    ELSE IF x.k = "fin" \/ y.k = "fin" THEN Fin(SignOf(x) * SignOf(y))
    ELSE IF x.k = "rat" /\ y.k = "rat" THEN R(x.n * y.n, x.d * y.d)
    ELSE IF SqNum(x) > (Cap * Cap) \div SqNum(y) \/ SqDen(x) > (Cap * Cap) \div SqDen(y)
         THEN Fin(SignOf(x) * SignOf(y))
    ELSE MkRoot(SignOf(x) * SignOf(y), SqNum(x) * SqNum(y), SqDen(x) * SqDen(y))

\* x + y on scalars
AddS(x, y) ==
    IF x.k = "err" \/ y.k = "err" THEN Raised
    ELSE IF x.k = "nan" \/ y.k = "nan" THEN NaN
    ELSE IF x.k = "inf" /\ y.k = "inf" THEN (IF x.n = y.n THEN x ELSE NaN)
    ELSE IF x.k = "inf" THEN x
    ELSE IF y.k = "inf" THEN y
    ELSE IF IsZero(x) THEN y
    ELSE IF IsZero(y) THEN x
    ELSE IF x.k = "rat" /\ y.k = "rat" THEN R(x.n * y.d + y.n * x.d, x.d * y.d)
    ELSE IF x.k = "root" /\ y.k = "root" /\ x.d = y.d /\ x.n = y.n
         THEN MulS(R(2, 1), x)
    ELSE IF x.k = "root" /\ y.k = "root" /\ x.d = y.d /\ x.n = -y.n THEN Zero
    ELSE IF SignOf(x) = SignOf(y) THEN Fin(SignOf(x))
    ELSE Fin(0)

\* 1/x for a non-zero scalar
InvS(x) ==
    IF x.k = "rat" THEN R(x.d, x.n)
    ELSE IF x.k = "root" THEN MkRoot(SignOf(x), x.d, IAbs(x.n))
    ELSE IF x.k = "inf" THEN Zero
    ELSE x

\* x / y on scalars.  A zero divisor raises ZeroDivisionError in Python's
\* division and gives inf or nan in numpy's
DivS(numpy, x, y) ==
    IF x.k = "err" \/ y.k = "err" THEN Raised
    ELSE IF IsZero(y)
         THEN IF ~numpy THEN Raised
              ELSE IF x.k = "nan" \/ IsZero(x) \/ SignOf(x) = 0 THEN NaN
              ELSE Inf(SignOf(x))
    ELSE IF x.k = "inf" /\ y.k = "inf" THEN NaN
    ELSE MulS(x, InvS(y))

\* np.abs
AbsS(x) ==
    IF x.k \in {"rat", "root"} THEN [x EXCEPT !.n = IAbs(x.n)]
    ELSE IF x.k = "inf" THEN Inf(1)
    ELSE IF x.k = "fin" THEN Fin(1)
    ELSE x

\* np.sqrt
SqrtS(x) ==
    IF x.k \in {"err", "nan"} THEN x
    ELSE IF x.n < 0 THEN NaN
    ELSE IF x.k = "rat" THEN MkRoot(1, x.n, x.d)
    ELSE IF x.k = "inf" THEN x
    ELSE IF x.k = "root" THEN Fin(1)
    ELSE x

\* np.log
LogS(x) ==
    IF x.k \in {"err", "nan"} THEN x
    ELSE IF x.k = "inf" THEN (IF x.n > 0 THEN x ELSE NaN)
    ELSE IF x.k = "fin" THEN (IF x.n < 0 THEN NaN ELSE Fin(0))
    ELSE IF x.n < 0 THEN NaN
    ELSE IF x.n = 0 THEN Inf(-1)
    ELSE IF x.n = x.d THEN Zero
    ELSE IF x.n > x.d THEN Fin(1)
    ELSE Fin(-1)

\* x to the power e, a natural number
RECURSIVE PowNat(_, _)
PowNat(x, e) == IF e = 0 THEN One ELSE MulS(x, PowNat(x, e - 1))

\* x ** y on scalars: exact for a rational base and an integer exponent.  0 to
\* a negative power raises ZeroDivisionError in Python's power and is inf in
\* numpy's (on the elements of a float array)
PowS(numpy, x, y) ==
    IF numpy /\ IsZero(x) /\ y.k \in {"rat", "root"} /\ y.n < 0 THEN Inf(1)
    ELSE IF x.k = "err" \/ y.k = "err" THEN Raised
    ELSE IF x.k = "nan" \/ y.k = "nan" THEN NaN
    ELSE IF IsZero(y) THEN One
    ELSE IF x.k = "rat" /\ y.k = "rat" /\ y.d = 1
         THEN IF y.n < 0 /\ x.n = 0 THEN Raised
              ELSE PowNat(IF y.n > 0 THEN x ELSE InvS(x), IAbs(y.n))
    ELSE IF IsZero(x) THEN (IF SignOf(y) > 0 THEN Zero ELSE Raised)
    ELSE IF x = One THEN One
    ELSE Fin(0)

\* Whether one of the operands is a numpy array
AnyArray(x, y) == x.k = "arr" \/ y.k = "arr"

\* The number of elementwise results: the length of the arrays (0 when they
\* differ in length), 1 for scalars
Size(x, y) ==
    IF x.k = "arr" /\ y.k = "arr"
    THEN (IF Len(x.n) = Len(y.n) THEN Len(x.n) ELSE 0)
    ELSE IF x.k = "arr" THEN Len(x.n)
    ELSE IF y.k = "arr" THEN Len(y.n)
    ELSE 1

\* The i-th element of an array; a scalar is broadcast
Elem(x, i) == IF x.k = "arr" THEN x.n[i] ELSE x

\* numpy broadcasting of an operation on x and y, given its elementwise
\* results: a ValueError when the shapes differ, an array when an operand is
\* one, a scalar otherwise
Broadcast(x, y, results) ==
    IF x.k = "arr" /\ y.k = "arr" /\ Len(x.n) # Len(y.n) THEN Raised
    ELSE IF AnyArray(x, y) THEN Arr(results)
    ELSE results[1]

\* x * y
Mul(x, y) ==
    Broadcast(x, y, [i \in 1..Size(x, y) |-> MulS(Elem(x, i), Elem(y, i))])

\* x + y
Add(x, y) ==
    Broadcast(x, y, [i \in 1..Size(x, y) |-> AddS(Elem(x, i), Elem(y, i))])

\* x / y: Python's division between scalars, numpy's as soon as one is an array
Div(x, y) ==
    Broadcast(x, y, [i \in 1..Size(x, y) |->
                        DivS(AnyArray(x, y), Elem(x, i), Elem(y, i))])

\* numpy's division (operands that are numpy numbers or arrays)
NpDiv(x, y) ==
    Broadcast(x, y, [i \in 1..Size(x, y) |-> DivS(TRUE, Elem(x, i), Elem(y, i))])

\* x ** y: Python's power between scalars, numpy's as soon as one is an array
Pow(x, y) ==
    Broadcast(x, y, [i \in 1..Size(x, y) |->
                        PowS(AnyArray(x, y), Elem(x, i), Elem(y, i))])

\* x ** 2
Sq(x) == Mul(x, x)

NpAbs(x) ==
    Broadcast(x, x, [i \in 1..Size(x, x) |-> AbsS(Elem(x, i))])

NpSqrt(x) ==
    Broadcast(x, x, [i \in 1..Size(x, x) |-> SqrtS(Elem(x, i))])

NpLog(x) ==
    Broadcast(x, x, [i \in 1..Size(x, x) |-> LogS(Elem(x, i))])

\* x <= y for rationals
LeqRat(x, y) == x.n * y.d <= y.n * x.d

\* x >= 0, as Python evaluates it (nan compares false)
GeqZero(x) ==
    \/ x.k \in {"rat", "root", "inf"} /\ x.n >= 0
    \/ x.k = "fin" /\ x.n = 1

\* -x
Neg(x) == Mul(R(-1, 1), x)

\* x - y
Sub(x, y) == Add(x, Neg(y))

---------------------------------------------------------------------------
(* Objects.  A Python value handed to an operation is one of              *)
(*   [tag |-> "q",   q |-> a Quantity]                                     *)
(*   [tag |-> "num", x |-> a plain number]                                 *)
(*   [tag |-> "arr", items |-> a sequence of such values]  (np.ndarray)    *)
(* and the outcome of an operation is one of these or [tag |-> "raise"].   *)

Quantity(value, err_sys, err_stat) ==
    [value |-> value, err_sys |-> err_sys, err_stat |-> err_stat]

QObj(q) == [tag |-> "q", q |-> q]

NumObj(x) == [tag |-> "num", x |-> x]

ArrObj(items) == [tag |-> "arr", items |-> items]

RaiseObj == [tag |-> "raise"]

is_numeric(obj) == obj.tag = "num"

\* Whether evaluating some field of q raised: the constructor call never
\* completed
FieldRaised(x) ==
    \/ x.k = "err"
    \/ x.k = "arr" /\ \E i \in 1..Len(x.n) : x.n[i].k = "err"

\* The outcome of a call that evaluates to Quantity q
Outcome(q) ==
    IF FieldRaised(q.value) \/ FieldRaised(q.err_sys) \/ FieldRaised(q.err_stat)
    THEN RaiseObj
    ELSE QObj(q)

\* np.array([...]) of the outcomes of the elementwise calls
ArrOutcome(items) ==
    IF \E i \in 1..Len(items) : items[i].tag = "raise"
    THEN RaiseObj
    ELSE ArrObj(items)

\* The lambdas of q_value, q_sys_error and q_stat_error, by name
Accessor(func, q) ==
    CASE func = "value" -> (IF is_numeric(q) THEN q.x ELSE q.q.value)
      [] func = "err_sys" -> q.q.err_sys
      [] func = "err_stat" -> q.q.err_stat

apply_function(obj_or_list, func) ==
    IF obj_or_list.tag = "arr"
    THEN Arr([i \in 1..Len(obj_or_list.items) |->
                Accessor(func, obj_or_list.items[i])])
    ELSE Accessor(func, obj_or_list)

q_value(quantity) == apply_function(quantity, "value")

q_sys_error(quantity) == apply_function(quantity, "err_sys")

q_stat_error(quantity) == apply_function(quantity, "err_stat")

\* A slip: the systematic error left out of the total
q_error_stat_only(quantity) == q_stat_error(quantity)

q_error(quantity) == Add(q_stat_error(quantity), q_sys_error(quantity))

\* Quantity.__try_to_convert_to_quantity__ (obj is a Quantity, a number or an
\* array of these)
__try_to_convert_to_quantity__(obj) ==
    IF obj.tag = "q" THEN obj
    ELSE IF is_numeric(obj) THEN QObj(Quantity(obj.x, Zero, Zero))
    ELSE ArrObj([i \in 1..Len(obj.items) |->
                   IF obj.items[i].tag = "q" THEN obj.items[i]
                   ELSE QObj(Quantity(obj.items[i].x, Zero, Zero))])

\* The lambdas c, c_a and c_b of __mul__, __pow__, __truediv__ and __add__
mul_c(a, b) == Mul(a, b)

\* A slip: the derivative in a taken for the one in b
mul_c_a_swapped(a, b) == a

mul_c_a(a, b) == b

mul_c_b(a, b) == a

pow_c(a, b) == Pow(a, b)

pow_c_a(a, b) == Mul(b, Pow(a, Sub(b, One)))

pow_c_b(a, b) == Mul(NpLog(a), Pow(a, b))

div_c(a, b) == Div(a, b)

div_c_a(a, b) == Div(One, b)

div_c_b(a, b) == Div(Neg(a), Pow(b, R(2, 1)))

add_c(a, b) == Add(a, b)

add_c_a(a, b) == One

add_c_b(a, b) == One

\* value_function(*quantity_values) for the lambdas of operation f
value_function(f, a, b) ==
    CASE f = "mul" -> mul_c(a, b)
      [] f = "pow" -> pow_c(a, b)
      [] f = "div" -> div_c(a, b)
      [] f = "add" -> add_c(a, b)

\* partial_derivatives[i](*quantity_values) for the lambdas of operation f
partial_derivative(f, i, a, b) ==
    CASE f = "mul" -> (IF i = 1 THEN mul_c_a(a, b) ELSE mul_c_b(a, b))
      [] f = "pow" -> (IF i = 1 THEN pow_c_a(a, b) ELSE pow_c_b(a, b))
      [] f = "div" -> (IF i = 1 THEN div_c_a(a, b) ELSE div_c_b(a, b))
      [] f = "add" -> (IF i = 1 THEN add_c_a(a, b) ELSE add_c_b(a, b))

\* One round of the loop of DerivedQuantity.__init__: err_sys += ...
AccumulateSys(err_sys, derivative, quantity) ==
    Add(err_sys, NpAbs(Mul(derivative, q_sys_error(quantity))))

\* One round of the loop of DerivedQuantity.__init__: err_stat += ...
AccumulateStat(err_stat, derivative, quantity) ==
    Add(err_stat, Sq(Mul(derivative, q_stat_error(quantity))))

\* One round of the loop of DerivedQuantity.__init__
Accumulate(errs, derivative, quantity) ==
    [err_sys |-> AccumulateSys(errs.err_sys, derivative, quantity),
     err_stat |-> AccumulateStat(errs.err_stat, derivative, quantity)]

\* The loop of DerivedQuantity.__init__ from round i on (i counted from 1)
RECURSIVE Loop(_, _, _, _, _)
Loop(f, args, quantity_values, i, errs) ==
    IF i > Len(args) THEN errs
    ELSE Loop(f, args, quantity_values, i + 1,
              Accumulate(errs,
                         partial_derivative(f, i, quantity_values[1],
                                            quantity_values[2]),
                         args[i]))

\* err_stat = np.sqrt(err_stat) and super().__init__(...)
Derived(value, errs) ==
    Outcome(Quantity(value, errs.err_sys, NpSqrt(errs.err_stat)))

\* DerivedQuantity.__init__ with the lambdas of operation f and args = [a, b]
DerivedQuantity(f, a, b) ==
    Derived(value_function(f, q_value(a), q_value(b)),
            Loop(f, <<a, b>>, <<q_value(a), q_value(b)>>, 1,
                 [err_sys |-> Zero, err_stat |-> Zero]))

\* Quantity.scale
scale(self, factor) ==
    Outcome(Quantity(Mul(self.value, factor), Mul(self.err_sys, factor),
                     Mul(self.err_stat, factor)))

\* Quantity.__mul__ (and __rmul__); for an array, self*x for each x in it
RECURSIVE __mul__(_, _)
__mul__(self, other) ==
    IF other.tag = "arr"
    THEN ArrOutcome([i \in 1..Len(other.items) |-> __mul__(self, other.items[i])])
    ELSE DerivedQuantity("mul", QObj(self), __try_to_convert_to_quantity__(other))

\* Quantity.__pow__
__pow__(self, other) ==
    DerivedQuantity("pow", QObj(self), __try_to_convert_to_quantity__(other))

\* Quantity.__truediv__
__truediv__(self, other) ==
    DerivedQuantity("div", QObj(self), __try_to_convert_to_quantity__(other))

\* Quantity.__add__ (and __radd__)
__add__(self, other) ==
    DerivedQuantity("add", QObj(self), __try_to_convert_to_quantity__(other))

\* other*-1 as Python evaluates it: Quantity.__mul__ for a Quantity, the
\* product for a number, elementwise for an array
RECURSIVE negated(_)
negated(other) ==
    IF other.tag = "arr"
    THEN ArrObj([i \in 1..Len(other.items) |-> negated(other.items[i])])
    ELSE IF other.tag = "q" THEN __mul__(other.q, NumObj(R(-1, 1)))
    ELSE NumObj(Mul(other.x, R(-1, 1)))

\* Quantity.__sub__
__sub__(self, other) == __add__(self, negated(other))

\* Quantity.__rsub__, __rtruediv__, __rpow__ (other is a plain number)
__rsub__(self, other) ==
    __sub__(__try_to_convert_to_quantity__(other).q, QObj(self))

__rtruediv__(self, other) ==
    __truediv__(__try_to_convert_to_quantity__(other).q, QObj(self))

__rpow__(self, other) ==
    __pow__(__try_to_convert_to_quantity__(other).q, QObj(self))

\* np.ndarray.sum
RECURSIVE SumSeq(_)
SumSeq(xs) == IF xs = <<>> THEN Zero ELSE AddS(Head(xs), SumSeq(Tail(xs)))

NpSum(x) == SumSeq(x.n)

\* np.ndarray.mean
NpMean(x) == NpDiv(NpSum(x), R(Len(x.n), 1))

\* np.ndarray.std: the square root of the mean of the squared deviations
NpStd(x) == NpSqrt(NpMean(Sq(NpAbs(Sub(x, NpMean(x))))))

\* A slip: the two errors handed to Quantity.__init__ in the wrong order
MeasuredQuantitySwapped(measurements, err_sys, sigma_interval) ==
    LET N == Len(measurements.n)
        std == NpStd(measurements)
        err_stat == IF N > 1
                    THEN NpDiv(Mul(sigma_interval, std), NpSqrt(R(N, 1)))
                    ELSE Zero
    IN Outcome(Quantity(NpMean(measurements), err_stat, err_sys))

\* MeasuredQuantity.__init__ (measurements is an array of numbers)
MeasuredQuantity(measurements, err_sys, sigma_interval) ==
    LET N == Len(measurements.n)
        std == NpStd(measurements)
        err_stat == IF N > 1
                    THEN NpDiv(Mul(sigma_interval, std), NpSqrt(R(N, 1)))
                    ELSE Zero
    IN Outcome(Quantity(NpMean(measurements), err_sys, err_stat))

\* WeightedAverage.__init__ (quantities is a list of Quantities)
WeightedAverage(quantities) ==
    LET x_i == q_value(quantities)
        delta_x_i == q_error(quantities)
        w_i == NpDiv(One, Pow(delta_x_i, R(2, 1)))
        x_mean == NpDiv(NpSum(Mul(x_i, w_i)), NpSum(w_i))
        delta_x == NpSqrt(NpDiv(One, NpSum(w_i)))
    IN Outcome(Quantity(x_mean, Zero, delta_x))

\* A slip: an index past the end reads the last element
IndexClamped(list, i) ==
    IF i <= Len(list.items) THEN list.items[i] ELSE list.items[Len(list.items)]

\* list[i] (i counted from 1): IndexError past the end
Index(list, i) == IF i <= Len(list.items) THEN list.items[i] ELSE RaiseObj

\* create_list_of_quantities (data is a list of numbers; err_sys and err_stat
\* are each a number or a list of numbers)
create_list_of_quantities(data, err_sys, err_stat) ==
    LET n == Len(data.items)
        es == IF is_numeric(err_sys) THEN ArrObj([i \in 1..n |-> err_sys])
              ELSE err_sys
        et == IF is_numeric(err_stat) THEN ArrObj([i \in 1..n |-> err_stat])
              ELSE err_stat
        item(i) ==
            IF Index(es, i).tag = "raise" \/ Index(et, i).tag = "raise"
            THEN RaiseObj
            ELSE QObj(Quantity(data.items[i].x, Index(es, i).x, Index(et, i).x))
    IN ArrOutcome([i \in 1..n |-> item(i)])

---------------------------------------------------------------------------
(* The state.  heap is the sequence of the Quantity objects created so far *)
(* and still held by the caller (an object is its index); last records the *)
(* most recent call: the operation, the receiver, the other operand and    *)
(* the outcome.  An operand is given as                                    *)
(*   [tag |-> "ref", i |-> index into heap]   a Quantity object            *)
(*   [tag |-> "num", x |-> number]            a plain number               *)
(*   [tag |-> "arr", items |-> <<...>>]       an np.ndarray of these       *)

\* The number of calls in a run
MaxCalls == 1

\* The length of an array operand, of a list of measurements or of data
MaxLen == 2

\* The values, errors and plain numbers the calls draw their inputs from
Values == {R(-2, 1), R(3, 1)}

SysErrors == {R(0, 1), R(1, 2)}

StatErrors == {R(0, 1), R(1, 5)}

Scalars == {R(-1, 1), R(0, 1), R(2, 1)}

Measurements == {R(-2, 1), R(1, 2), R(1, 1), R(3, 1)}

Sigmas == {R(1, 1), R(2, 1), R(3, 1)}

\* The Quantities a caller constructs: Quantity(value, err_sys, err_stat)
Constructed ==
    {Quantity(v, es, et) : v \in Values, es \in SysErrors, et \in StatErrors}

Ref(i) == [tag |-> "ref", i |-> i]

Num(x) == [tag |-> "num", x |-> x]

Array(items) == [tag |-> "arr", items |-> items]

NoOperand == [tag |-> "none"]

\* The Python value an operand stands for
DerefScalar(h, o) == IF o.tag = "ref" THEN QObj(h[o.i]) ELSE NumObj(o.x)

Deref(h, o) ==
    IF o.tag = "arr"
    THEN ArrObj([i \in 1..Len(o.items) |-> DerefScalar(h, o.items[i])])
    ELSE DerefScalar(h, o)

IsScalarNumber(x) == x.k # "arr"

HasScalarFields(q) ==
    IsScalarNumber(q.value) /\ IsScalarNumber(q.err_sys) /\ IsScalarNumber(q.err_stat)

\* Whether the model tracks every field of q exactly (or as nan, inf)
TrackedNumber(x) ==
    IF x.k = "arr" THEN \A i \in 1..Len(x.n) : x.n[i].k # "fin" ELSE x.k # "fin"

TrackedQuantity(q) ==
    TrackedNumber(q.value) /\ TrackedNumber(q.err_sys) /\ TrackedNumber(q.err_stat)

Tracked(out) ==
    IF out.tag = "q" THEN TrackedQuantity(out.q)
    ELSE IF out.tag = "arr"
    THEN \A i \in 1..Len(out.items) : TrackedQuantity(out.items[i].q)
    ELSE TRUE

\* The Quantity objects an outcome consists of
Created(out) ==
    IF out.tag = "q" THEN <<out.q>>
    ELSE IF out.tag = "arr" THEN [i \in 1..Len(out.items) |-> out.items[i].q]
    ELSE <<>>

\* A slip: the call overwrites its receiver and returns it
InstantiateInPlace(h, self, out) ==
    IF out.tag = "q" /\ self > 0
    THEN [heap |-> [h EXCEPT ![self] = out.q], refs |-> <<self>>]
    ELSE [heap |-> h \o Created(out),
          refs |-> [i \in 1..Len(Created(out)) |-> Len(h) + i]]

\* Instantiation: every Quantity of the outcome of a call on object self is a
\* new object; the heap afterwards and the references returned
Instantiate(h, self, out) ==
    [heap |-> h \o Created(out),
     refs |-> [i \in 1..Len(Created(out)) |-> Len(h) + i]]

\* A call of operation op on object self with operand o, whose outcome is out
Call(op, self, o, out) ==
    LET new == Instantiate(heap, self, out)
    IN /\ last.calls < MaxCalls
       /\ Tracked(out)
       /\ heap' = new.heap
       /\ last' = [op |-> op, self |-> self, other |-> o,
                   out |-> [tag |-> out.tag, refs |-> new.refs],
                   calls |-> last.calls + 1]

ScalarOperands == {Ref(i) : i \in 1..Len(heap)} \cup {Num(x) : x \in Scalars}

\* np.ndarray operands: arrays of Quantities (with plain fields) and numbers
ArrayOperands ==
    LET items == {o \in ScalarOperands :
                    o.tag = "ref" => HasScalarFields(heap[o.i])}
    IN {Array(xs) : xs \in UNION {[1..n -> items] : n \in 1..MaxLen}}

NoCall ==
    [op |-> "none", self |-> 0, other |-> NoOperand,
     out |-> [tag |-> "none", refs |-> <<>>], calls |-> 0]

\* Two Quantities a and b have been constructed
Init ==
    /\ heap \in [1..2 -> Constructed]
    /\ last = NoCall

\* heap[i] ** o
PowCall(o) ==
    \E i \in 1..Len(heap) :
        Call("pow", i, o, __pow__(heap[i], Deref(heap, o)))

\* a Quantity or a plain number on the right
DoPow == \E o \in ScalarOperands : PowCall(o)

\* an array on the right
DoPowSeq == \E o \in ArrayOperands : PowCall(o)

\* k ** heap[i]
DoRPow ==
    \E i \in 1..Len(heap), k \in Scalars :
        Call("rpow", i, Num(k), __rpow__(heap[i], NumObj(k)))

\* heap[i] + o
AddCall(o) ==
    \E i \in 1..Len(heap) :
        Call("add", i, o, __add__(heap[i], Deref(heap, o)))

\* a Quantity or a plain number on the right
DoAdd == \E o \in ScalarOperands : AddCall(o)

\* an array on the right
DoAddSeq == \E o \in ArrayOperands : AddCall(o)

\* k + heap[i]
DoRAdd ==
    \E i \in 1..Len(heap), k \in Scalars :
        Call("radd", i, Num(k), __add__(heap[i], NumObj(k)))

\* heap[i] - o
SubCall(o) ==
    \E i \in 1..Len(heap) :
        Call("sub", i, o, __sub__(heap[i], Deref(heap, o)))

\* a Quantity or a plain number on the right
DoSub == \E o \in ScalarOperands : SubCall(o)

\* an array on the right
DoSubSeq == \E o \in ArrayOperands : SubCall(o)

\* k - heap[i]
DoRSub ==
    \E i \in 1..Len(heap), k \in Scalars :
        Call("rsub", i, Num(k), __rsub__(heap[i], NumObj(k)))

\* heap[i] * o
MulCall(o) ==
    \E i \in 1..Len(heap) :
        Call("mul", i, o, __mul__(heap[i], Deref(heap, o)))

\* a Quantity or a plain number on the right
DoMul == \E o \in ScalarOperands : MulCall(o)

\* an array on the right
DoMulSeq == \E o \in ArrayOperands : MulCall(o)

\* k * heap[i]
DoRMul ==
    \E i \in 1..Len(heap), k \in Scalars :
        Call("rmul", i, Num(k), __mul__(heap[i], NumObj(k)))

\* heap[i] / o
DivCall(o) ==
    \E i \in 1..Len(heap) :
        Call("div", i, o, __truediv__(heap[i], Deref(heap, o)))

\* a Quantity or a plain number on the right
DoDiv == \E o \in ScalarOperands : DivCall(o)

\* an array on the right
DoDivSeq == \E o \in ArrayOperands : DivCall(o)

\* k / heap[i]
DoRDiv ==
    \E i \in 1..Len(heap), k \in Scalars :
        Call("rdiv", i, Num(k), __rtruediv__(heap[i], NumObj(k)))

\* heap[i].scale(k)
DoScale ==
    \E i \in 1..Len(heap), k \in Scalars :
        Call("scale", i, Num(k), scale(heap[i], k))

Next ==
    \/ DoAdd
    \/ DoRAdd
    \/ DoSub
    \/ DoRSub
    \/ DoMul
    \/ DoRMul
    \/ DoDiv
    \/ DoRDiv
    \/ DoScale

Spec == Init /\ [][Next]_vars

\* The arithmetic with the powers
NextPow ==
    \/ Next
    \/ DoPow
    \/ DoRPow

SpecPow == Init /\ [][NextPow]_vars

\* The arithmetic with an array as the right operand
NextSeq ==
    \/ DoAddSeq
    \/ DoSubSeq
    \/ DoMulSeq
    \/ DoDivSeq
    \/ DoPowSeq

SpecSeq == Init /\ [][NextSeq]_vars

---------------------------------------------------------------------------
(* The constructors that compute Quantities from data.  Each is a function *)
(* of its arguments alone: a run is one call.                              *)

\* Nothing has been constructed
InitEmpty ==
    /\ heap = <<>>
    /\ last = NoCall

\* The non-empty sequences over S of length at most MaxLen
Lists(S) == UNION {[1..n -> S] : n \in 1..MaxLen}

\* MeasuredQuantity(measurements, err_sys, sigma_interval)
DoMeasuredQuantity ==
    \E m \in Lists(Measurements), es \in SysErrors, sg \in Sigmas :
        /\ last.calls = 0
        /\ Call("measured", 0,
                [tag |-> "args", measurements |-> m, err_sys |-> es,
                 sigma_interval |-> sg],
                MeasuredQuantity(Arr(m), es, sg))

SpecMeasured == InitEmpty /\ [][DoMeasuredQuantity]_vars

\* A number or a list of numbers of S, as a Python value
NumberOrList(S) ==
    {NumObj(x) : x \in S}
        \cup {ArrObj([i \in 1..Len(xs) |-> NumObj(xs[i])]) : xs \in Lists(S)}

\* create_list_of_quantities(data, err_sys, err_stat)
DoCreateList ==
    \E d \in Lists(Values), es \in NumberOrList(SysErrors),
       et \in NumberOrList(StatErrors) :
        /\ last.calls = 0
        /\ Call("create_list", 0,
                [tag |-> "args", data |-> d, err_sys |-> es, err_stat |-> et],
                create_list_of_quantities(
                    ArrObj([i \in 1..Len(d) |-> NumObj(d[i])]), es, et))

SpecList == InitEmpty /\ [][DoCreateList]_vars

\* A list of Quantities has been constructed
InitQuantities ==
    /\ heap \in Lists(Constructed)
    /\ last = NoCall

\* WeightedAverage(heap)
DoWeightedAverage ==
    /\ last.calls = 0
    /\ Call("weighted_average", 0, Array([i \in 1..Len(heap) |-> Ref(i)]),
            WeightedAverage(ArrObj([i \in 1..Len(heap) |-> QObj(heap[i])])))

SpecAverage == InitQuantities /\ [][DoWeightedAverage]_vars

---------------------------------------------------------------------------
(* Properties *)

\* The receiver, the Quantity operand and the resulting Quantity of the last call
CallSelf == heap[last.self]

CallOther == heap[last.other.i]

CallResult == heap[last.out.refs[1]]

NonNegErrors(q) == GeqZero(q.err_sys) /\ GeqZero(q.err_stat)

IsFinite(x) == x.k \in {"rat", "root"}

\* r is the propagation of a and b through an operation of value v and partial
\* derivatives d_a, d_b: linear in the systematic errors, in quadrature in the
\* statistical ones
PropagatedAs(r, a, b, v, d_a, d_b) ==
    /\ r.value = v
    /\ r.err_sys = Add(NpAbs(Mul(d_a, a.err_sys)), NpAbs(Mul(d_b, b.err_sys)))
    /\ GeqZero(r.err_stat)
    /\ Sq(r.err_stat) = Add(Sq(Mul(d_a, a.err_stat)), Sq(Mul(d_b, b.err_stat)))

C2_NonNegativeErrors == \A i \in 1..Len(heap) : NonNegErrors(heap[i])

C4_ScaleIsMul ==
    (last.op = "scale" /\ NonNegErrors(CallSelf)) =>
        /\ last.out.tag = "q"
        /\ QObj(CallResult)
             = __mul__(CallSelf, QObj(Quantity(last.other.x, Zero, Zero)))

\* C5: for every Quantity q and plain number s, s - q has the value
\* s - q.value, the negation of (q - s).value, and the errors of q - s, which
\* are q.err_sys and q.err_stat.
C5_ReflectedSub ==
    \A i \in 1..Len(heap), s \in Scalars :
        LET q == heap[i]
            r == __rsub__(q, NumObj(s))
            d == __sub__(q, NumObj(s))
        IN /\ r.tag = "q" /\ d.tag = "q"
           /\ r.q.value = Sub(s, q.value)
           /\ r.q.value = Neg(d.q.value)
           /\ r.q.err_sys = d.q.err_sys /\ r.q.err_stat = d.q.err_stat
           /\ r.q.err_sys = q.err_sys /\ r.q.err_stat = q.err_stat

\* The operation op of Quantity self with the single operand x
ScalarCall(op, self, x) ==
    CASE op = "add" -> __add__(self, x)
      [] op = "sub" -> __sub__(self, x)
      [] op = "mul" -> __mul__(self, x)
      [] op = "div" -> __truediv__(self, x)
      [] op = "pow" -> __pow__(self, x)

\* C6: an operation of a Quantity q with an array [x1..xn] on the right
\* returns n separate Quantities, the i-th being the result of the operation
\* on q and xi.
C6_Broadcast ==
    (last.other.tag = "arr" /\ last.out.tag # "raise") =>
        /\ last.out.tag = "arr"
        /\ Len(last.out.refs) = Len(last.other.items)
        /\ \A i \in 1..Len(last.other.items) :
               QObj(heap[last.out.refs[i]])
                 = ScalarCall(last.op, CallSelf,
                              DerefScalar(heap, last.other.items[i]))

\* The total error and the weight of the i-th Quantity of the heap
TotalError(i) == Add(heap[i].err_sys, heap[i].err_stat)

Weight(i) == NpDiv(One, Mul(TotalError(i), TotalError(i)))

\* C7: the WeightedAverage of Quantities with positive total errors e_i has,
\* with w_i = 1/e_i^2, value * sum(w_i) = sum(value_i * w_i),
\* err_stat^2 * sum(w_i) = 1 and err_sys = 0; its value is the arithmetic mean
\* when all e_i are equal, and lies between the least and greatest value_i.
C7_WeightedAverage ==
    LET n == Len(last.other.items)
        sumw == SumSeq([i \in 1..n |-> Weight(i)])
        r == CallResult
    IN (last.op = "weighted_average"
          /\ \A i \in 1..n : ~IsZero(TotalError(i)) /\ GeqZero(TotalError(i))) =>
           /\ last.out.tag = "q"
           /\ Mul(r.value, sumw)
                = SumSeq([i \in 1..n |-> Mul(heap[i].value, Weight(i))])
           /\ Mul(Sq(r.err_stat), sumw) = One
           /\ r.err_sys = Zero
           /\ (\A i \in 1..n : TotalError(i) = TotalError(1)) =>
                  Mul(r.value, R(n, 1)) = SumSeq([i \in 1..n |-> heap[i].value])
           /\ \E i \in 1..n : LeqRat(heap[i].value, r.value)
           /\ \E i \in 1..n : LeqRat(r.value, heap[i].value)

\* Two Quantities of equal error and different values have been averaged
C7_Witness ==
    /\ last.op = "weighted_average"
    /\ last.out.tag = "q"
    /\ Len(last.other.items) = 2
    /\ heap[1].value # heap[2].value
    /\ TotalError(1) = TotalError(2)
    /\ ~IsZero(heap[1].err_sys) /\ ~IsZero(heap[1].err_stat)
    /\ Mul(CallResult.value, R(2, 1)) = Add(heap[1].value, heap[2].value)
    /\ CallResult.err_stat.k = "root"

IsList(err) == err.tag = "arr"

\* The error of the i-th Quantity that err specifies
ErrorAt(err, i) == IF IsList(err) THEN err.items[i].x ELSE err.x

\* The call returned one Quantity per data value, with the i-th errors
ListCreated ==
    LET d == last.other.data
    IN /\ last.out.tag = "arr"
       /\ Len(last.out.refs) = Len(d)
       /\ \A i \in 1..Len(d) :
              heap[last.out.refs[i]]
                = Quantity(d[i], ErrorAt(last.other.err_sys, i),
                           ErrorAt(last.other.err_stat, i))

DerivativeInA(op, a, k) ==
    CASE op = "add" -> One
      [] op = "mul" -> k
      [] op = "div" -> Div(One, k)
      [] op = "pow" -> Mul(k, Pow(a, Sub(k, One)))

\* C10: for a Quantity a and a plain number k where c(a.value, k) is defined,
\* a+k, a*k, a/k and a**k have err_sys = |dc/da * a.err_sys| and
\* err_stat = |dc/da * a.err_stat|, both finite numbers.
C10_NumberContributesNothing ==
    (/\ last.op \in {"add", "mul", "div", "pow"}
     /\ last.other.tag = "num"
     /\ value_function(last.op, CallSelf.value, last.other.x) # Raised) =>
        LET d_a == DerivativeInA(last.op, CallSelf.value, last.other.x)
        IN /\ last.out.tag = "q"
           /\ IsFinite(CallResult.err_sys) /\ IsFinite(CallResult.err_stat)
           /\ CallResult.err_sys = NpAbs(Mul(d_a, CallSelf.err_sys))
           /\ CallResult.err_stat = NpAbs(Mul(d_a, CallSelf.err_stat))

====
